---- MODULE Spec2Model ----
(***************************************************************************)
(* A model of the asyncore backend of pylabrad (src/labrad/backend.py):    *)
(* the connection facade (AsyncoreConnection on BaseConnection), the       *)
(* protocol engine (AsyncoreProtocol) with its request table, ID pool,     *)
(* outbound queue and write buffer, the I/O thread that runs the engine's  *)
(* handlers, and the manager at the other end of the socket.               *)
(*                                                                         *)
(* Caller threads act through the facade; each of their calls touches the  *)
(* shared state (the queue, under the engine's lock) at one point, so a    *)
(* call is one step.  The I/O thread's handlers are split at every         *)
(* queue.get_nowait(), the only place where it meets the caller threads.   *)
(***************************************************************************)
EXTENDS Integers, Sequences, FiniteSets, TLC

\* ---------------------------------------------------------------- bounds
\* facade calls (sendRequest, sendMessage) made by callers after connect
MaxCalls == 2
\* disconnect() calls made by callers after connect
MaxDisconnects == 2
\* units ("bytes") of one serialized packet; a partial write can split it
PktLen == 2
\* caller threads that call context(), and the calls each of them makes
CtxThreads == 2
CtxCalls == 2

\* ------------------------------------------------------ program constants
\* C.MANAGER_ID, the reserved target of login and lookup requests
MANAGER_ID == 1
\* C.LOOKUP, the manager's lookup setting
LOOKUP == 3

\* ------------------------------------------------------------ values
\* A server or setting is given as a word (numeric ID) or as a string name;
\* a name is identified by its index, so that isinstance(x, str) is x.str.
Word(n) == [str |-> FALSE, v |-> n]
Str(k) == [str |-> TRUE, v |-> k]

\* targets and settings the callers use: one numeric, one by name
Targets == {Word(2), Str(1)}
Settings == {Word(5), Str(1)}

\* the reasons terminate() is called with (lines 278, 281, 318)
ErrorReason == "AsyncoreProtocol error"
LostReason == "Connection lost"
ClosedReason == "Connection closed"

\* the drop sentinel (None on the queue) and a send command
\* (target, context, flatrecs, future); cid names the command and its
\* payload, fut says whether a future rides with it (future is not None)
None == [sentinel |-> TRUE, cid |-> 0, target |-> 0, settings |-> <<>>, fut |-> FALSE]
Command(cid, target, settings, withFuture) ==
    [sentinel |-> FALSE, cid |-> cid, target |-> target, settings |-> settings,
     fut |-> withFuture]

\* concurrent.futures.Future: pending, or finished by set_result /
\* set_exception; sets counts the calls of either
NewFuture == [st |-> "pending", val |-> <<>>, why |-> "", sets |-> 0]
set_result(f, records) ==
    [st |-> "result", val |-> records, why |-> "", sets |-> f.sets + 1]
set_exception(f, errs, why) ==
    [st |-> "exception", val |-> errs, why |-> why, sets |-> f.sets + 1]

\* a reply record: a payload echoing the request it answers, or an error
Ok(cid) == [err |-> FALSE, of |-> cid, code |-> 0]
Err(cid, code) == [err |-> TRUE, of |-> cid, code |-> code]
\* what the manager may answer to the request carrying payload cid
ReplyChoices(cid) ==
    { <<Ok(cid)>>, <<Ok(cid), Err(cid, 1), Err(cid, 2)>> }

\* flattenPacket: the packet as PktLen units on the wire
Packet(command, request) ==
    [cid |-> command.cid, target |-> command.target, request |-> request,
     settings |-> command.settings]
flattenPacket(command, request) ==
    [i \in 1..PktLen |-> [pkt |-> Packet(command, request), part |-> i]]

Max(a, b) == IF a > b THEN a ELSE b

VARIABLES
    \* facade (BaseConnection / AsyncoreConnection)
    connected,      \* self.connected
    cpc,            \* position of connect(): init, login1..3, done, failed
    serverCache,    \* self.serverCache: name -> ID
    settingCache,   \* self.settingCache: server ID -> (name -> ID)
    joining,        \* caller threads blocked in self.loop.join()
    \* engine (AsyncoreProtocol)
    alive, nextRequest, requests, pool, queue, buffer,
    sockOpen,       \* the socket is open and in the asyncore map
    \* the futures handed to callers, by the cid of their command
    fut,
    \* I/O thread: idle between handlers, or inside flushCommands
    ioPc,
    ioStack,        \* reasons of the terminate() calls in progress, outermost first
    \* the manager's side of the socket
    wire,           \* units written to the socket, in order
    replies,        \* cid of an answered request -> the reply sent for it
    \* bookkeeping of the run
    ncalls, ndisc,  \* facade calls and disconnect calls made so far
    ncmd,           \* commands accepted by the queue so far
    idOf,           \* cid -> request ID startRequest gave it
    allocated,      \* request IDs ever handed out by startRequest
    maxOut,         \* most request futures ever unresolved at one time
    accepted,       \* cids in the order enqueue accepted them
    ret,            \* what the latest facade call did
    dropped,        \* drop() has been called
    strays,         \* parity of the stray packets handleResponse was given
    \* BaseConnection.context(), run by several caller threads
    nextContext,    \* self._nextContext
    ctxPc,          \* thread -> its position in context()
    ctxLocal,       \* thread -> its local ctx and the value it loaded for +=
    ctxReturned     \* the contexts returned so far, in order

facadeVars == <<connected, cpc, serverCache, settingCache, joining>>
engineVars == <<alive, nextRequest, requests, pool, queue, buffer, sockOpen>>
ioVars == <<ioPc, ioStack>>
peerVars == <<wire, replies>>
bookVars == <<ncalls, ndisc, ncmd, idOf, allocated, maxOut, accepted, ret, dropped, strays>>
ctxVars == <<nextContext, ctxPc, ctxLocal, ctxReturned>>
vars == <<facadeVars, engineVars, fut, ioVars, peerVars, bookVars, ctxVars>>

Empty == [x \in {} |-> 0]
\* a facade call as ret records it: the operation and its arguments, how it
\* ended, the lookup requests it put on the queue, the cid of the command it
\* enqueued last (0: none)
Ret(op, out, target, setting, timeout, lookups, cid) ==
    [op |-> op, out |-> out, target |-> target, setting |-> setting,
     timeout |-> timeout, lookups |-> lookups, cid |-> cid]
NoRet == Ret("none", "", Word(0), Word(0), FALSE, 0, 0)

\* BaseConnection.__init__ and the fields AsyncoreProtocol.__init__ sets
Init ==
    /\ connected = FALSE
    /\ cpc = "init"
    /\ serverCache = Empty
    /\ settingCache = Empty
    /\ joining = 0
    /\ alive = TRUE
    /\ nextRequest = 1
    /\ requests = Empty
    /\ pool = {}
    /\ queue = <<>>
    /\ buffer = <<>>
    /\ sockOpen = FALSE
    /\ fut = Empty
    /\ ioPc = "idle"
    /\ ioStack = <<>>
    /\ wire = <<>>
    /\ replies = Empty
    /\ ncalls = 0
    /\ ndisc = 0
    /\ ncmd = 0
    /\ idOf = Empty
    /\ allocated = {}
    /\ maxOut = 0
    /\ accepted = <<>>
    /\ ret = NoRet
    /\ dropped = FALSE
    /\ strays = 0
    /\ nextContext = 1
    /\ ctxPc = [t \in 1..CtxThreads |-> "idle"]
    /\ ctxLocal = [t \in 1..CtxThreads |-> [ctx |-> <<0, 0>>, loaded |-> 0, calls |-> 0]]
    /\ ctxReturned = <<>>

\* request futures a caller may still be waiting on
Outstanding(fu) == Cardinality({c \in DOMAIN fu : fu[c].st = "pending"})

\* asyncore.loop returns once the socket has left its map
ThreadFinished == ~sockOpen /\ ioPc = "idle"

\* ------------------------------------------------------------ the engine
\* enqueue without the look at alive
enqueueUnchecked(command, raised) ==
    ~raised /\ queue' = Append(queue, command)

\* enqueue that puts the command at the head of the queue
enqueueFront(command, raised) ==
    IF ~alive
    THEN raised /\ queue' = queue
    ELSE ~raised /\ queue' = <<command>> \o queue

\* AsyncoreProtocol.enqueue, under self.lock: raises 'not connected' when
\* the engine is no longer alive, else puts the command on the queue
enqueue(command, raised) ==
    IF ~alive
    THEN raised /\ queue' = queue
    ELSE ~raised /\ queue' = Append(queue, command)

\* AsyncoreProtocol.drop: puts the sentinel, without the lock or a look at alive
drop == queue' = Append(queue, None)

\* startRequest that forgets to advance the counter
startRequestStuck(n, future) ==
    /\ IF pool # {}
       THEN n \in pool /\ pool' = pool \ {n} /\ nextRequest' = nextRequest
       ELSE n = nextRequest /\ nextRequest' = nextRequest /\ pool' = pool
    /\ requests' = [x \in DOMAIN requests \cup {n} |->
                      IF x = n THEN future ELSE requests[x]]

\* startRequest that never looks into the pool
startRequestFresh(n, future) ==
    /\ n = nextRequest /\ nextRequest' = nextRequest + 1 /\ pool' = pool
    /\ requests' = [x \in DOMAIN requests \cup {n} |->
                      IF x = n THEN future ELSE requests[x]]

\* AsyncoreProtocol.startRequest: an ID from the pool (set.pop() takes any),
\* else the counter; n is the ID it returns
startRequest(n, future) ==
    /\ IF pool # {}
       THEN n \in pool /\ pool' = pool \ {n} /\ nextRequest' = nextRequest
       ELSE n = nextRequest /\ nextRequest' = nextRequest + 1 /\ pool' = pool
    /\ requests' = [x \in DOMAIN requests \cup {n} |->
                      IF x = n THEN future ELSE requests[x]]

\* handleResponse that releases the ID but leaves the entry in the table
handleResponseKeep(request, records) ==
    LET n == -request IN
    IF n \notin DOMAIN requests
    THEN UNCHANGED <<requests, pool, fut>>
    ELSE LET future == requests[n]
             errors == SelectSeq(records, LAMBDA r : r.err)
         IN /\ requests' = requests
            /\ pool' = pool \cup {n}
            /\ fut' = [fut EXCEPT ![future] =
                         IF errors # <<>>
                         THEN set_exception(@, <<errors[1]>>, "reply")
                         ELSE set_result(@, records)]

\* handleResponse that fails the future with the last error of the reply
handleResponseLastError(request, records) ==
    LET n == -request IN
    IF n \notin DOMAIN requests
    THEN UNCHANGED <<requests, pool, fut>>
    ELSE LET future == requests[n]
             errors == SelectSeq(records, LAMBDA r : r.err)
         IN /\ requests' = [x \in DOMAIN requests \ {n} |-> requests[x]]
            /\ pool' = pool \cup {n}
            /\ fut' = [fut EXCEPT ![future] =
                         IF errors # <<>>
                         THEN set_exception(@, <<errors[Len(errors)]>>, "reply")
                         ELSE set_result(@, records)]

\* handleResponse that puts the ID of a packet it does not know into the pool
handleResponseRelease(request, records) ==
    LET n == -request IN
    IF n \notin DOMAIN requests
    THEN pool' = pool \cup {n} /\ UNCHANGED <<requests, fut>>
    ELSE LET future == requests[n]
             errors == SelectSeq(records, LAMBDA r : r.err)
         IN /\ requests' = [x \in DOMAIN requests \ {n} |-> requests[x]]
            /\ pool' = pool \cup {n}
            /\ fut' = [fut EXCEPT ![future] =
                         IF errors # <<>>
                         THEN set_exception(@, <<errors[1]>>, "reply")
                         ELSE set_result(@, records)]

\* AsyncoreProtocol.handleResponse, called by the packet stream for each
\* decoded packet
handleResponse(request, records) ==
    LET n == -request IN
    IF n \notin DOMAIN requests
    THEN UNCHANGED <<requests, pool, fut>>
    ELSE LET future == requests[n]
             errors == SelectSeq(records, LAMBDA r : r.err)
         IN /\ requests' = [x \in DOMAIN requests \ {n} |-> requests[x]]
            /\ pool' = pool \cup {n}
            /\ fut' = [fut EXCEPT ![future] =
                         IF errors # <<>>
                         THEN set_exception(@, <<errors[1]>>, "reply")
                         ELSE set_result(@, records)]

\* the head of terminate(reason): alive cleared under the lock, the socket
\* closed (which takes it out of the asyncore map); flushCommands follows
terminate(reason) ==
    /\ alive' = FALSE
    /\ sockOpen' = FALSE
    /\ ioStack' = Append(ioStack, reason)
    /\ ioPc' = "flush"

\* the loop of terminate that stops after the first future
failRequestsFirst(fu, reason) ==
    [c \in DOMAIN fu |->
        IF \E n \in DOMAIN requests :
              requests[n] = c /\ \A m \in DOMAIN requests : n <= m
        THEN set_exception(fu[c], <<>>, reason)
        ELSE fu[c]]

\* the tail of terminate(reason): set_exception on every future in the table
failRequests(fu, reason) ==
    [c \in DOMAIN fu |->
        IF \E n \in DOMAIN requests : requests[n] = c
        THEN set_exception(fu[c], <<>>, reason)
        ELSE fu[c]]

\* terminate() calls nest when flushCommands meets the sentinel; each one
\* ends with its own loop over the table, innermost first
RECURSIVE unwind(_, _)
unwind(fu, stack) ==
    IF stack = <<>> THEN fu
    ELSE unwind(failRequests(fu, stack[Len(stack)]), SubSeq(stack, 1, Len(stack) - 1))

\* -------------------------------------------------------- the I/O thread
\* asyncore polls writable(): handle_write runs when the queue is not empty
handle_write ==
    /\ ioPc = "idle" /\ sockOpen
    /\ queue # <<>>
    /\ ioPc' = "flush"
    /\ UNCHANGED <<facadeVars, alive, nextRequest, requests, pool, queue, buffer,
                   sockOpen, fut, ioStack, peerVars, bookVars, ctxVars>>

\* flushCommands that serializes a message under the next request ID
flushCommandsTagged ==
    /\ ioPc = "flush"
    /\ queue # <<>> /\ ~Head(queue).sentinel
    /\ LET command == Head(queue) IN
       /\ queue' = Tail(queue)
       /\ IF command.fut
          THEN \E n \in 1..nextRequest :
                  /\ startRequest(n, command.cid)
                  /\ buffer' = buffer \o flattenPacket(command, n)
                  /\ idOf' = idOf @@ (command.cid :> n)
                  /\ allocated' = allocated \cup {n}
          ELSE /\ buffer' = buffer \o flattenPacket(command, nextRequest)
               /\ UNCHANGED <<nextRequest, requests, pool, idOf, allocated>>
    /\ UNCHANGED <<facadeVars, alive, sockOpen, fut, ioVars, peerVars,
                   ncalls, ndisc, ncmd, maxOut, accepted, ret, dropped, strays,
                   ctxVars>>

\* flushCommands, one turn of its loop on a send command: a request gets an
\* ID from startRequest, a message the tag 0; the packet joins the buffer.
\* (The raw-string branch, lines 320-324, is a test hook: no call of the
\* facade or of enqueue puts a string on the queue.)
flushCommands ==
    /\ ioPc = "flush"
    /\ queue # <<>> /\ ~Head(queue).sentinel
    /\ LET command == Head(queue) IN
       /\ queue' = Tail(queue)
       /\ IF command.fut
          THEN \E n \in 1..nextRequest :
                  /\ startRequest(n, command.cid)
                  /\ buffer' = buffer \o flattenPacket(command, n)
                  /\ idOf' = idOf @@ (command.cid :> n)
                  /\ allocated' = allocated \cup {n}
          ELSE /\ buffer' = buffer \o flattenPacket(command, 0)
               /\ UNCHANGED <<nextRequest, requests, pool, idOf, allocated>>
    /\ UNCHANGED <<facadeVars, alive, sockOpen, fut, ioVars, peerVars,
                   ncalls, ndisc, ncmd, maxOut, accepted, ret, dropped, strays,
                   ctxVars>>

\* flushCommands meets the sentinel: terminate('Connection closed')
flushSentinel ==
    /\ ioPc = "flush"
    /\ queue # <<>> /\ Head(queue).sentinel
    /\ queue' = Tail(queue)
    /\ terminate(ClosedReason)
    /\ UNCHANGED <<facadeVars, nextRequest, requests, pool, buffer, fut,
                   peerVars, bookVars, ctxVars>>

\* handle_write after flushCommands returned True: send() takes a prefix of
\* the buffer (the socket was polled writable), the rest stays
handle_write_send ==
    /\ ioPc = "flush" /\ queue = <<>> /\ ioStack = <<>>
    /\ \E sent \in 1..Len(buffer) :
          /\ wire' = wire \o SubSeq(buffer, 1, sent)
          /\ buffer' = SubSeq(buffer, sent + 1, Len(buffer))
    /\ ioPc' = "idle"
    /\ UNCHANGED <<facadeVars, alive, nextRequest, requests, pool, queue,
                   sockOpen, fut, ioStack, replies, bookVars, ctxVars>>

\* terminate() that goes to its loop over the table without flushCommands
terminateFinishEarly ==
    /\ ioPc = "flush" /\ ioStack # <<>>
    /\ fut' = unwind(fut, ioStack)
    /\ ioStack' = <<>>
    /\ ioPc' = "idle"
    /\ UNCHANGED <<facadeVars, engineVars, peerVars, bookVars, ctxVars>>

\* the queue is drained inside terminate(): every terminate in progress
\* fails the futures of the table and returns (flushCommands returns False
\* to handle_write, which sends nothing)
terminateFinish ==
    /\ ioPc = "flush" /\ queue = <<>> /\ ioStack # <<>>
    /\ fut' = unwind(fut, ioStack)
    /\ ioStack' = <<>>
    /\ ioPc' = "idle"
    /\ UNCHANGED <<facadeVars, engineVars, peerVars, bookVars, ctxVars>>

\* the peer closed the connection: recv() calls handle_close
handle_close ==
    /\ ioPc = "idle" /\ sockOpen
    /\ terminate(LostReason)
    /\ UNCHANGED <<facadeVars, nextRequest, requests, pool, queue, buffer, fut,
                   peerVars, bookVars, ctxVars>>

\* a socket error: asyncore calls handle_error
handle_error ==
    /\ ioPc = "idle" /\ sockOpen
    /\ terminate(ErrorReason)
    /\ UNCHANGED <<facadeVars, nextRequest, requests, pool, queue, buffer, fut,
                   peerVars, bookVars, ctxVars>>

\* requests the manager has received in full and not yet answered
AtPeer ==
    {wire[i].pkt : i \in {j \in DOMAIN wire :
        /\ wire[j].part = PktLen
        /\ wire[j].pkt.request > 0
        /\ wire[j].pkt.cid \notin DOMAIN replies}}

\* handle_read: the manager answers one of the requests it holds, in any
\* order and once each, and the packet stream hands the reply over
handle_read ==
    /\ ioPc = "idle" /\ sockOpen
    /\ \E p \in AtPeer : \E records \in ReplyChoices(p.cid) :
          /\ handleResponse(-p.request, records)
          /\ replies' = replies @@ (p.cid :> [tag |-> -p.request, recs |-> records])
    /\ UNCHANGED <<facadeVars, alive, nextRequest, queue, buffer, sockOpen,
                   ioVars, wire, bookVars, ctxVars>>

\* ------------------------------------------------------------ the facade
\* AsyncoreConnection._sendPacket with the future _sendRequestNoLookup made
\* for the command: enqueue, and connected cleared when enqueue raises
sendPacket(command, raised) ==
    /\ enqueue(command, raised)
    /\ connected' = IF raised THEN FALSE ELSE connected
    /\ ncmd' = IF raised THEN ncmd ELSE ncmd + 1
    /\ accepted' = IF raised THEN accepted ELSE Append(accepted, command.cid)
    /\ fut' = IF ~raised /\ command.fut THEN fut @@ (command.cid :> NewFuture) ELSE fut
    /\ maxOut' = Max(maxOut, Outstanding(fut'))

\* disconnect that does not look at connected
disconnectAlways ==
    drop /\ joining' = joining + 1 /\ dropped' = TRUE

\* BaseConnection.disconnect up to the join: drop() only if connected
disconnect ==
    IF connected
    THEN drop /\ joining' = joining + 1 /\ dropped' = TRUE
    ELSE UNCHANGED <<queue, joining, dropped>>

\* _lookupNames, the cache part (lines 189-199): the server, then the
\* settings of that server; records are given by their setting identifiers
cachedServer(server) ==
    IF server.str /\ server.v \in DOMAIN serverCache
    THEN Word(serverCache[server.v])
    ELSE server
cachedRecords(server, records) ==
    [i \in DOMAIN records |->
        IF /\ ~server.str /\ server.v \in DOMAIN settingCache
           /\ records[i].str /\ records[i].v \in DOMAIN settingCache[server.v]
        THEN Word(settingCache[server.v][records[i].v])
        ELSE records[i]]
\* lines 202-204: is anything left to look up
settingLookups(records) == SelectSeq(records, LAMBDA r : r.str)
needLookup(server, records) == server.str \/ Len(settingLookups(records)) > 0

\* _lookupNames on a miss (lines 205-213): the lookup request goes to the
\* queue through _sendRequestNoLookup, which returns its Future; the next
\* line indexes that Future (resp[0][1]), which raises TypeError, so the
\* caches are not written and the caller's packet is never built
lookupNames(op, target, setting, timeout, raised) ==
    /\ sendPacket(Command(ncmd + 1, MANAGER_ID, <<LOOKUP>>, TRUE), raised)
    /\ ret' = Ret(op, IF raised THEN "not connected" ELSE "TypeError",
                  target, setting, timeout,
                  IF raised THEN 0 ELSE 1, IF raised THEN 0 ELSE ncmd + 1)
    /\ UNCHANGED <<serverCache, settingCache>>

\* BaseConnection.connect with AsyncoreConnection._connect up to the first
\* login request: TLS is refused, the socket is opened, the engine built,
\* the I/O thread started, and login() sends the empty request
connect ==
    /\ cpc = "init"
    /\ \E tls \in {"off", "on"}, reachable \in BOOLEAN, raised \in BOOLEAN :
        IF tls = "on"
        THEN /\ reachable /\ ~raised
             /\ cpc' = "unsupported"
             /\ ret' = Ret("connect", "unsupported", Word(0), Word(0), FALSE, 0, 0)
             /\ UNCHANGED <<connected, serverCache, settingCache, joining, engineVars,
                            fut, ncmd, accepted, maxOut>>
        ELSE IF ~reachable
        THEN /\ ~raised
             /\ cpc' = "failed"
             /\ ret' = Ret("connect", "LoginFailed", Word(0), Word(0), FALSE, 0, 0)
             /\ UNCHANGED <<connected, serverCache, settingCache, joining, engineVars,
                            fut, ncmd, accepted, maxOut>>
        ELSE /\ sockOpen' = TRUE
             /\ serverCache' = Empty /\ settingCache' = Empty
             /\ sendPacket(Command(ncmd + 1, MANAGER_ID, <<>>, TRUE), raised)
             /\ cpc' = "login1"
             /\ ret' = ret
             /\ UNCHANGED <<joining, alive, nextRequest, requests, pool, buffer>>
    /\ UNCHANGED <<ioVars, peerVars, ncalls, ndisc, idOf, allocated, dropped,
                   strays, ctxVars>>

\* the LoginFailedError login() raises: step 1 passes the error on, the
\* password step and the identification step name themselves
loginError(step, sending) ==
    IF step = "login1" /\ ~sending THEN "LoginFailed"
    ELSE IF (step = "login1" /\ sending) \/ (step = "login2" /\ ~sending)
    THEN "Incorrect password."
    ELSE "Bad identification."

\* login(), resumed when the future it waits on is finished: the next
\* request of the handshake, or the end of it.  A failed step, or an enqueue
\* that raises, makes _connect call self.disconnect() and raise
\* LoginFailedError; connected is still False there (line 106)
login ==
    /\ cpc \in {"login1", "login2", "login3"}
    /\ fut[ncmd].st # "pending"
    /\ \E raised \in BOOLEAN :
        IF fut[ncmd].st = "result" /\ cpc = "login3"
        THEN /\ ~raised
             /\ cpc' = "done"
             /\ connected' = TRUE
             /\ ret' = Ret("connect", "ok", Word(0), Word(0), FALSE, 0, 0)
             /\ UNCHANGED <<joining, queue, fut, ncmd, accepted, maxOut, dropped>>
        ELSE IF fut[ncmd].st = "result"
        THEN /\ sendPacket(Command(ncmd + 1, MANAGER_ID, <<0>>, TRUE), raised)
             /\ cpc' = IF raised THEN "failed"
                       ELSE IF cpc = "login1" THEN "login2" ELSE "login3"
             /\ ret' = IF raised
                       THEN Ret("connect", loginError(cpc, TRUE), Word(0), Word(0),
                                FALSE, 0, 0)
                       ELSE ret
             /\ UNCHANGED <<joining, dropped>>
        ELSE /\ ~raised
             /\ disconnect
             /\ cpc' = IF connected THEN "failing" ELSE "failed"
             /\ ret' = Ret("connect", loginError(cpc, FALSE), Word(0), Word(0),
                           FALSE, 0, 0)
             /\ UNCHANGED <<connected, fut, ncmd, accepted, maxOut>>
    /\ UNCHANGED <<serverCache, settingCache, alive, nextRequest, requests, pool,
                   buffer, sockOpen, ioVars, peerVars, ncalls, ndisc, idOf, allocated,
                   strays, ctxVars>>

\* AsyncoreConnection.sendRequest: _lookupNames, then _sendRequestNoLookup,
\* which refuses a timeout and else enqueues the request with a new Future
sendRequest ==
    /\ cpc = "done" /\ ncalls < MaxCalls
    /\ \E target \in Targets, setting \in Settings, timeout \in BOOLEAN,
          raised \in BOOLEAN :
        LET server == cachedServer(target)
            records == cachedRecords(server, <<setting>>)
        IN IF needLookup(server, records)
           THEN lookupNames("sendRequest", target, setting, timeout, raised)
           ELSE IF timeout
           THEN /\ ~raised
                /\ ret' = Ret("sendRequest", "timeout", target, setting, timeout, 0, 0)
                /\ UNCHANGED <<connected, serverCache, settingCache, queue, fut,
                               ncmd, accepted, maxOut>>
           ELSE /\ sendPacket(Command(ncmd + 1, server.v,
                                      [i \in DOMAIN records |-> records[i].v], TRUE),
                              raised)
                /\ ret' = Ret("sendRequest", IF raised THEN "not connected" ELSE "ok",
                              target, setting, timeout, 0,
                              IF raised THEN 0 ELSE ncmd + 1)
                /\ UNCHANGED <<serverCache, settingCache>>
    /\ ncalls' = ncalls + 1
    /\ UNCHANGED <<cpc, joining, alive, nextRequest, requests, pool, buffer, sockOpen,
                   ioVars, peerVars, ndisc, idOf, allocated, dropped, strays,
                   ctxVars>>

\* AsyncoreConnection.sendMessage: _lookupNames, then _sendPacket without a
\* future
sendMessage ==
    /\ cpc = "done" /\ ncalls < MaxCalls
    /\ \E target \in Targets, setting \in Settings, raised \in BOOLEAN :
        LET server == cachedServer(target)
            records == cachedRecords(server, <<setting>>)
        IN IF needLookup(server, records)
           THEN lookupNames("sendMessage", target, setting, FALSE, raised)
           ELSE /\ sendPacket(Command(ncmd + 1, server.v,
                                      [i \in DOMAIN records |-> records[i].v], FALSE),
                              raised)
                /\ ret' = Ret("sendMessage", IF raised THEN "not connected" ELSE "ok",
                              target, setting, FALSE, 0,
                              IF raised THEN 0 ELSE ncmd + 1)
                /\ UNCHANGED <<serverCache, settingCache>>
    /\ ncalls' = ncalls + 1
    /\ UNCHANGED <<cpc, joining, alive, nextRequest, requests, pool, buffer, sockOpen,
                   ioVars, peerVars, ndisc, idOf, allocated, dropped, strays,
                   ctxVars>>

\* a caller calls disconnect(): drop() if connected, then it waits in
\* self.loop.join()
callDisconnect ==
    /\ cpc = "done" /\ ndisc < MaxDisconnects
    /\ disconnect
    /\ ndisc' = ndisc + 1
    /\ ret' = Ret("disconnect", IF connected THEN "joining" ELSE "noop",
                  Word(0), Word(0), FALSE, 0, 0)
    /\ UNCHANGED <<connected, cpc, serverCache, settingCache, alive, nextRequest,
                   requests, pool, buffer, sockOpen, fut, ioVars, peerVars,
                   ncalls, ncmd, idOf, allocated, maxOut, accepted, strays,
                   ctxVars>>

\* self.loop.join() returns once the I/O thread is gone; disconnect() then
\* clears connected
disconnectJoined ==
    /\ joining > 0
    /\ ThreadFinished
    /\ joining' = joining - 1
    /\ connected' = FALSE
    /\ cpc' = IF cpc = "failing" THEN "failed" ELSE cpc
    /\ UNCHANGED <<serverCache, settingCache, engineVars, fut, ioVars, peerVars,
                   bookVars, ctxVars>>

Next ==
    \/ connect
    \/ login
    \/ sendRequest
    \/ sendMessage
    \/ callDisconnect
    \/ disconnectJoined
    \/ handle_write
    \/ flushCommands
    \/ flushSentinel
    \/ handle_write_send
    \/ terminateFinish
    \/ handle_close
    \/ handle_error
    \/ handle_read

Spec == Init /\ [][Next]_vars

\* ------------------------------------------- packets that answer nothing
\* handle_read with a packet that is no reply to a pending request: a
\* message (tag 0), a request (tag 1), or a reply whose ID is not a key of
\* the request table (never issued, or already completed)
handle_read_stray ==
    /\ ioPc = "idle" /\ sockOpen
    /\ \E request \in (-nextRequest)..1 : \E records \in ReplyChoices(0) :
          /\ -request \notin DOMAIN requests
          /\ handleResponse(request, records)
    /\ strays' = 1 - strays
    /\ UNCHANGED <<facadeVars, alive, nextRequest, queue, buffer, sockOpen,
                   ioVars, peerVars, ncalls, ndisc, ncmd, idOf, allocated, maxOut,
                   accepted, ret, dropped, ctxVars>>

\* the connection while it is up, with a peer that also sends such packets
NextStray ==
    \/ connect
    \/ login
    \/ sendRequest
    \/ handle_write
    \/ flushCommands
    \/ handle_write_send
    \/ handle_read
    \/ handle_read_stray

SpecStray == Init /\ [][NextStray]_vars

\* ------------------------------------------------------------ context()
\* everything context() does not touch
connVars == <<facadeVars, engineVars, fut, ioVars, peerVars, bookVars>>

\* BaseConnection.context, line 32: ctx = 0, self._nextContext
contextRead ==
    \E t \in 1..CtxThreads :
        /\ ctxPc[t] = "idle" /\ ctxLocal[t].calls < CtxCalls
        /\ ctxLocal' = [ctxLocal EXCEPT ![t].ctx = <<0, nextContext>>,
                                        ![t].calls = @ + 1]
        /\ ctxPc' = [ctxPc EXCEPT ![t] = "read"]
        /\ UNCHANGED <<nextContext, ctxReturned, connVars>>

\* line 33, self._nextContext += 1: the load of the attribute
contextLoad ==
    \E t \in 1..CtxThreads :
        /\ ctxPc[t] = "read"
        /\ ctxLocal' = [ctxLocal EXCEPT ![t].loaded = nextContext]
        /\ ctxPc' = [ctxPc EXCEPT ![t] = "loaded"]
        /\ UNCHANGED <<nextContext, ctxReturned, connVars>>

\* line 33, the store of the sum, and line 34, return ctx
contextStore ==
    \E t \in 1..CtxThreads :
        /\ ctxPc[t] = "loaded"
        /\ nextContext' = ctxLocal[t].loaded + 1
        /\ ctxReturned' = Append(ctxReturned, ctxLocal[t].ctx)
        /\ ctxPc' = [ctxPc EXCEPT ![t] = "idle"]
        /\ UNCHANGED <<ctxLocal, connVars>>

\* caller threads in context(); no lock is held, a thread switch can fall
\* between any two of the steps
NextContext ==
    \/ contextRead
    \/ contextLoad
    \/ contextStore

SpecContext == Init /\ [][NextContext]_vars

\* ------------------------------------------------------------ the claims
\* the commands (not sentinels) waiting in a queue
Queued(q) == {q[i].cid : i \in {j \in DOMAIN q : ~q[j].sentinel}}
\* the entry of the request table that holds future c, if any
InTable(c) == \E n \in DOMAIN requests : requests[n] = c
\* terminate() has run to its end
Terminated == ~alive /\ ioPc = "idle"

\* C1: a future finished from a reply holds exactly the records of the
\* reply the manager sent for its own request, whose tag is the negation of
\* the request ID startRequest gave that request; a future failed from a
\* reply holds an error record of its own reply.  IDs are recycled.
C1_NoCrossTalk ==
    \A c \in DOMAIN fut :
        /\ fut[c].st = "result" =>
              /\ c \in DOMAIN replies /\ c \in DOMAIN idOf
              /\ replies[c].tag = -idOf[c]
              /\ fut[c].val = replies[c].recs
        /\ (fut[c].st = "exception" /\ fut[c].why = "reply") =>
              /\ c \in DOMAIN replies /\ c \in DOMAIN idOf
              /\ replies[c].tag = -idOf[c]
              /\ \E i \in DOMAIN replies[c].recs : fut[c].val = <<replies[c].recs[i]>>

\* C1 witness: two requests on the table, the later one answered first, and
\* the earlier one running under an ID an earlier request had used
C1_Witness ==
    \E c, d \in DOMAIN fut :
        /\ c < d /\ c \in DOMAIN idOf
        /\ fut[c].st = "pending" /\ fut[d].st = "result"
        /\ \E e \in DOMAIN idOf : e < c /\ idOf[e] = idOf[c]

\* C2: the step that ends terminate() leaves every future of the request
\* table failed with the reason of a terminate() in progress, and once the
\* engine is terminated no future of the table is unresolved.
C2_TerminateFailsPending ==
    /\ [](Terminated =>
            \A n \in DOMAIN requests : fut[requests[n]].st = "exception")
    /\ [][(ioStack # <<>> /\ ioStack' = <<>>) =>
            \A n \in DOMAIN requests :
               /\ fut'[requests[n]].st = "exception"
               /\ \E i \in DOMAIN ioStack : fut'[requests[n]].why = ioStack[i]]_vars

\* C2 witness: two requests were outstanding when a socket error ended the
\* engine, and both futures hold that error
C2_Witness ==
    /\ Terminated
    /\ Cardinality(DOMAIN requests) >= 2
    /\ \A n \in DOMAIN requests :
          fut[requests[n]].st = "exception" /\ fut[requests[n]].why = ErrorReason

\* C4: once the engine is not alive it never is again, no step adds a
\* command to the queue, and a facade call that reaches enqueue ends in
\* 'not connected'.
C4_TerminatedAbsorbing ==
    [][~alive =>
        /\ ~alive'
        /\ Queued(queue') \subseteq Queued(queue)
        /\ accepted' = accepted
        /\ (ncalls' # ncalls /\ ret'.out # "timeout") => ret'.out = "not connected"]_vars

\* C4 witness: a request made after terminate() was refused
C4_Witness ==
    /\ Terminated
    /\ ret.op = "sendRequest" /\ ret.out = "not connected"
    /\ ~connected

\* C5: no request ID is at once a key of the request table and in the
\* pool, and no step replaces the future an ID of the table stands for.
C5_PendingNotFree ==
    /\ [](DOMAIN requests \cap pool = {})
    /\ [][\A n \in DOMAIN requests :
            n \in DOMAIN requests' => requests'[n] = requests[n]]_vars

\* C5 witness: an ID that went through the pool is a key of the table
\* again, for a later request, while another ID waits in the pool
C5_Witness ==
    \E n \in DOMAIN requests :
        /\ \E c \in DOMAIN idOf : c < requests[n] /\ idOf[c] = n
        /\ pool # {} /\ n \notin pool

\* C6: the request IDs ever handed out are no more than the most request
\* futures that were unresolved at one time, however many round trips
\* were completed.
C6_IdsBounded == Cardinality(allocated) <= maxOut

\* C6 witness: four round trips completed with one request outstanding at
\* a time, all under one ID
C6_Witness ==
    /\ Cardinality(DOMAIN replies) >= 4
    /\ maxOut = 1
    /\ allocated = {1}

\* C3: when connect() has raised the login failure of the password step
\* or of the identification step, the engine is torn down: the socket is
\* closed, so that the I/O thread has no channel left to serve and leaves
\* its loop, and the engine is not alive.
C3_LoginFailureTearsDown ==
    (cpc = "failed" /\ ret.out \in {"Incorrect password.", "Bad identification."})
        => (~sockOpen /\ ~alive)

\* C7: a call whose names were not in the cache and whose lookup request
\* went out on a live engine has, when it ends, put exactly one lookup
\* request on the queue, recorded the names the reply resolved in the
\* caches, and enqueued its own packet.
C7_LookupBeforeSend ==
    (ret.op \in {"sendRequest", "sendMessage"} /\ ret.lookups > 0 /\ alive) =>
        /\ ret.lookups = 1
        /\ ret.out = "ok"
        /\ ret.target.str => ret.target.v \in DOMAIN serverCache
        /\ ret.setting.str =>
              \E srv \in DOMAIN settingCache :
                  ret.setting.v \in DOMAIN settingCache[srv]

\* C8: when a sendRequest by server name and setting name has put its
\* lookup on the queue and the manager has answered it, the next
\* sendRequest by the same names puts no lookup request on the queue.
C8_SecondCallFromCache ==
    [][( /\ ret.op = "sendRequest" /\ ret.target.str /\ ret.setting.str
         /\ ret.lookups = 1 /\ fut[ret.cid].st = "result"
         /\ ncalls' = ncalls + 1 /\ ret'.op = "sendRequest"
         /\ ret'.target = ret.target /\ ret'.setting = ret.setting )
        => ret'.lookups = 0]_vars

\* C9: a sendRequest with a timeout fails at once and leaves the queue,
\* the request table, the pool and the ID counter as they were.
C9_TimeoutNoActivity ==
    [][(ncalls' = ncalls + 1 /\ ret'.op = "sendRequest" /\ ret'.timeout) =>
          /\ ret'.out # "ok"
          /\ queue' = queue
          /\ accepted' = accepted
          /\ <<nextRequest', requests', pool'>> = <<nextRequest, requests, pool>>]_vars

\* C10: a request whose reply was handled has no entry in the request
\* table, and after terminate() has completed no request has one.
C10_EntryRemoved ==
    /\ \A c \in DOMAIN replies : ~InTable(c)
    /\ Terminated => DOMAIN requests = {}

\* C11: when flushCommands serializes a command without a future (queued by
\* sendMessage) the packet carries request ID 0 and the table, the pool and
\* the counter stay as they were; when it serializes a command with a future
\* (queued by sendRequest) the packet carries an ID n > 0 that was not a key
\* of the table, and the table gains exactly the entry n -> that future.
C11_MessageZeroRequestKeyed ==
    [][(ioPc = "flush" /\ queue # <<>> /\ queue' = Tail(queue)
          /\ ~Head(queue).sentinel)
       => LET command == Head(queue)
              new == SubSeq(buffer', Len(buffer) + 1, Len(buffer'))
          IN /\ Len(new) = PktLen
             /\ buffer' = buffer \o new
             /\ IF command.fut
                THEN \E n \in 1..nextRequest :
                        /\ \A i \in 1..PktLen : new[i].pkt = Packet(command, n)
                        /\ n \notin DOMAIN requests
                        /\ DOMAIN requests' = DOMAIN requests \cup {n}
                        /\ requests'[n] = command.cid
                        /\ \A m \in DOMAIN requests : requests'[m] = requests[m]
                ELSE /\ \A i \in 1..PktLen : new[i].pkt = Packet(command, 0)
                     /\ UNCHANGED <<requests, pool, nextRequest>>]_vars

\* a message has gone out with ID 0 while a request sits in the table
C11_Witness ==
    /\ \E i \in 1..Len(wire) : wire[i].pkt.request = 0
    /\ \E n \in DOMAIN requests : n > 0 /\ idOf[requests[n]] = n

\* C12: once drop() has been called, a facade call that reaches enqueue
\* (every sendRequest or sendMessage that is not refused for its timeout)
\* fails with 'not connected' and leaves the queue as it was, whether or not
\* the I/O thread has taken the sentinel off the queue yet.
C12_EnqueueRefusedAfterDrop ==
    [][(dropped /\ ncalls' = ncalls + 1 /\ ret'.out # "timeout")
       => (ret'.out = "not connected" /\ queue' = queue)]_vars

\* the packets of a sequence of wire units, one entry per packet (taken at
\* its first unit)
RECURSIVE PacketCids(_)
PacketCids(units) ==
    IF units = <<>> THEN <<>>
    ELSE IF units[1].part = 1
    THEN <<units[1].pkt.cid>> \o PacketCids(Tail(units))
    ELSE PacketCids(Tail(units))

\* C13: the packets written to the socket, followed by those serialized
\* into the buffer and not yet written, are the commands in exactly the
\* order enqueue accepted them: they form a prefix of the accepted sequence
\* (the partly written packet at the head of the buffer counted once).
C13_WireInAcceptOrder ==
    LET out == PacketCids(wire \o buffer)
    IN /\ Len(out) <= Len(accepted)
       /\ out = SubSeq(accepted, 1, Len(out))
       /\ \A i \in 1..Len(wire \o buffer) :
             (wire \o buffer)[i].part = ((i - 1) % PktLen) + 1

\* the three login requests, then a message and a request, have been
\* written out in full
C13_Witness ==
    /\ Len(wire) = 5 * PktLen
    /\ PacketCids(wire) = accepted
    /\ \E i \in 1..Len(wire) : wire[i].pkt.request = 0
    /\ \E i \in 1..Len(wire) : wire[i].pkt.request > 0 /\ wire[i].pkt.cid = 5

\* C14: when handle_read hands over a reply to a pending request and the
\* reply holds error records, the request's future is failed with the first
\* of them in record order, its ID leaves the table and joins the pool, and
\* every other future and every other table entry stays as it was.
C14_FirstErrorFails ==
    [][\A c \in DOMAIN replies' \ DOMAIN replies :
         LET recs == replies'[c].recs
             n == -replies'[c].tag
         IN ((\E k \in 1..Len(recs) : recs[k].err) /\ n \in DOMAIN requests)
            => LET first == CHOOSE k \in 1..Len(recs) :
                               recs[k].err /\ \A j \in 1..(k - 1) : ~recs[j].err
                   future == requests[n]
               IN /\ fut[future].st = "pending"
                  /\ fut'[future].st = "exception"
                  /\ fut'[future].why = "reply"
                  /\ fut'[future].val = <<recs[first]>>
                  /\ DOMAIN requests' = DOMAIN requests \ {n}
                  /\ pool' = pool \cup {n}
                  /\ \A m \in DOMAIN requests' : requests'[m] = requests[m]
                  /\ DOMAIN fut' = DOMAIN fut
                  /\ \A d \in DOMAIN fut \ {future} : fut'[d] = fut[d]]_vars

\* a request was failed by the first error of its reply and released its ID
\* while another request is still pending in the table
C14_Witness ==
    \E c \in DOMAIN fut : \E d \in DOMAIN fut :
        /\ fut[c].st = "exception" /\ fut[c].why = "reply"
        /\ fut[c].val = <<Err(c, 1)>>
        /\ idOf[c] \in pool
        /\ fut[d].st = "pending" /\ InTable(d)

\* C15: a decoded packet whose negated tag is not a key of the request table
\* is discarded: the table, the pool, the counter and every future stay as
\* they were, and no error ends the connection (the engine stays alive, the
\* socket open, the I/O thread between handlers).
C15_UnknownReplyDiscarded ==
    [][strays' # strays
       => /\ UNCHANGED <<requests, pool, nextRequest, fut>>
          /\ UNCHANGED <<alive, sockOpen, ioPc, ioStack, queue, buffer>>]_vars

\* a stray packet has been discarded while a request was pending in the
\* table and a released ID lay in the pool
C15_Witness ==
    /\ strays = 1
    /\ pool # {}
    /\ \E n \in DOMAIN requests : fut[requests[n]].st = "pending"
    /\ alive /\ sockOpen

\* C16: context() never returns the same context twice, also when several
\* threads call it at once: each returned context has high word 0 and a low
\* word strictly greater than that of every context returned before it.
C16_ContextsIncrease ==
    /\ \A i \in 1..Len(ctxReturned) : ctxReturned[i][1] = 0
    /\ \A i \in 1..Len(ctxReturned) : \A j \in 1..Len(ctxReturned) :
          i < j => ctxReturned[i][2] < ctxReturned[j][2]

\* C17: disconnect() on a connected facade requests the drop (the sentinel
\* joins the queue) and waits; it returns only once the I/O thread has
\* finished, and connected is cleared at that return, not before.  On a
\* facade that is already disconnected it does nothing: no sentinel, no wait.
C17_DisconnectJoins ==
    [][/\ (ndisc' = ndisc + 1)
          => IF connected
             THEN /\ queue' = Append(queue, None)
                  /\ joining' = joining + 1
                  /\ connected' = TRUE
             ELSE UNCHANGED <<facadeVars, engineVars, fut, ioVars>>
       /\ (joining' < joining)
          => /\ ThreadFinished /\ ~alive
             /\ ~connected'
             /\ UNCHANGED <<engineVars, fut, ioVars>>]_vars

\* a disconnect() that dropped has returned after the I/O thread finished,
\* and a later disconnect() was a no-op
C17_Witness ==
    /\ dropped /\ joining = 0 /\ ~connected /\ ThreadFinished
    /\ ndisc = 2 /\ ret.op = "disconnect" /\ ret.out = "noop"
    /\ queue = <<>>

\* C18: while the socket stays open, bytes that were serialized into the
\* buffer and not yet written get written by the loop without any further
\* command: whenever the I/O thread is between handlers with the socket open
\* and a remainder in the buffer, the loop's write handler is ready to run.
C18_RemainderWritable ==
    (ioPc = "idle" /\ sockOpen /\ buffer # <<>>) => ENABLED handle_write

\* C19: once terminate() has completed (the engine is not alive and the I/O
\* thread is out of its handler), no accepted command is left in the queue
\* and no future is unresolved, in the table or anywhere else, also for
\* commands whose enqueue was accepted just before terminate cleared alive.
C19_NothingLeftPending ==
    Terminated
    => /\ Queued(queue) = {}
       /\ \A c \in DOMAIN fut : fut[c].st # "pending"

\* terminate() has completed and failed a request that was accepted, given
\* an ID and never written to the socket
C19_Witness ==
    /\ Terminated
    /\ \E c \in DOMAIN fut :
          /\ fut[c].st = "exception" /\ fut[c].why = ClosedReason
          /\ c \in DOMAIN idOf
          /\ \A i \in DOMAIN wire : wire[i].pkt.cid # c

\* C20: every future is finished at most once (one set_result or
\* set_exception call in its life), also when a sentinel is still on the
\* queue as an error or close starts terminate, when more than one sentinel
\* was queued, and when replies arrive around the termination.
C20_CompletedOnce ==
    \A c \in DOMAIN fut : fut[c].sets <= 1

====
